---- MODULE Spec2Model ----
(***************************************************************************)
(* script/hassfest/quality_scale.py: validation of the quality_scale.yaml  *)
(* files of the integrations.  validate() walks the registry and calls     *)
(* validate_iqs_file on every integration; each call appends errors to the *)
(* error sink of that integration.                                         *)
(*                                                                         *)
(* A message is a sequence of string fragments (the pieces an f-string     *)
(* concatenates).  Collaborators outside the file (load_yaml_dict, the     *)
(* voluptuous SCHEMA call, the rule validators) are logged in `calls`.     *)
(***************************************************************************)
EXTENDS Integers, Sequences, FiniteSets, TLC

VARIABLES
  integrations,  \* the registry: a sequence of Integration records
  errors,        \* errors[i]: the error sink of integrations[i]
  calls,         \* calls[i]: collaborator calls made while validating i
  idx,           \* position of the next integration validate() visits
  raised         \* TRUE once an exception has propagated out of validate()

vars == <<integrations, errors, calls, idx, raised>>

(***************************************************************************)
(* Bounds of the model.                                                    *)
(***************************************************************************)
NumIntegrations == 2   \* size of the registry in SpecRegistry
MaxErrors == 2         \* longest error sequence a validator returns

(***************************************************************************)
(* The rule catalog.                                                       *)
(***************************************************************************)
BRONZE == 1
SILVER == 2
GOLD == 3
PLATINUM == 4

ScaledQualityScaleTiers == <<BRONZE, SILVER, GOLD, PLATINUM>>

TierName(scale) ==
  CASE scale = BRONZE -> "bronze"
    [] scale = SILVER -> "silver"
    [] scale = GOLD -> "gold"
    [] scale = PLATINUM -> "platinum"

Range(s) == {s[k] : k \in DOMAIN s}

QUALITY_SCALE_TIERS ==
  [name \in {TierName(t) : t \in Range(ScaledQualityScaleTiers)} |->
     CHOOSE t \in Range(ScaledQualityScaleTiers) : TierName(t) = name]

Rule(name, tier, validator) ==
  [name |-> name, tier |-> tier, validator |-> validator]

ALL_RULES ==
  <<
    Rule("action-setup", BRONZE, FALSE),
    Rule("appropriate-polling", BRONZE, FALSE),
    Rule("brands", BRONZE, FALSE),
    Rule("common-modules", BRONZE, FALSE),
    Rule("config-flow", BRONZE, TRUE),
    Rule("config-flow-test-coverage", BRONZE, FALSE),
    Rule("dependency-transparency", BRONZE, FALSE),
    Rule("docs-actions", BRONZE, FALSE),
    Rule("docs-high-level-description", BRONZE, FALSE),
    Rule("docs-installation-instructions", BRONZE, FALSE),
    Rule("docs-removal-instructions", BRONZE, FALSE),
    Rule("entity-event-setup", BRONZE, FALSE),
    Rule("entity-unique-id", BRONZE, FALSE),
    Rule("has-entity-name", BRONZE, FALSE),
    Rule("runtime-data", BRONZE, TRUE),
    Rule("test-before-configure", BRONZE, FALSE),
    Rule("test-before-setup", BRONZE, FALSE),
    Rule("unique-config-entry", BRONZE, TRUE),
    Rule("action-exceptions", SILVER, FALSE),
    Rule("config-entry-unloading", SILVER, TRUE),
    Rule("docs-configuration-parameters", SILVER, FALSE),
    Rule("docs-installation-parameters", SILVER, FALSE),
    Rule("entity-unavailable", SILVER, FALSE),
    Rule("integration-owner", SILVER, FALSE),
    Rule("log-when-unavailable", SILVER, FALSE),
    Rule("parallel-updates", SILVER, TRUE),
    Rule("reauthentication-flow", SILVER, TRUE),
    Rule("test-coverage", SILVER, FALSE),
    Rule("devices", GOLD, FALSE),
    Rule("diagnostics", GOLD, TRUE),
    Rule("discovery", GOLD, TRUE),
    Rule("discovery-update-info", GOLD, FALSE),
    Rule("docs-data-update", GOLD, FALSE),
    Rule("docs-examples", GOLD, FALSE),
    Rule("docs-known-limitations", GOLD, FALSE),
    Rule("docs-supported-devices", GOLD, FALSE),
    Rule("docs-supported-functions", GOLD, FALSE),
    Rule("docs-troubleshooting", GOLD, FALSE),
    Rule("docs-use-cases", GOLD, FALSE),
    Rule("dynamic-devices", GOLD, FALSE),
    Rule("entity-category", GOLD, FALSE),
    Rule("entity-device-class", GOLD, FALSE),
    Rule("entity-disabled-by-default", GOLD, FALSE),
    Rule("entity-translations", GOLD, FALSE),
    Rule("exception-translations", GOLD, FALSE),
    Rule("icon-translations", GOLD, FALSE),
    Rule("reconfiguration-flow", GOLD, TRUE),
    Rule("repair-issues", GOLD, FALSE),
    Rule("stale-devices", GOLD, FALSE),
    Rule("async-dependency", PLATINUM, FALSE),
    Rule("inject-websession", PLATINUM, FALSE),
    Rule("strict-typing", PLATINUM, TRUE)
  >>

RuleNames == {ALL_RULES[k].name : k \in DOMAIN ALL_RULES}

\* mutant: a tier's list also holds the rules of the tiers below it
SCALE_RULES_Cumulative ==
  [tier \in Range(ScaledQualityScaleTiers) |->
     LET of == SelectSeq(ALL_RULES, LAMBDA rule : rule.tier <= tier)
     IN [k \in DOMAIN of |-> of[k].name]]

\* {scale: [rule.name for rule in ALL_RULES if rule.tier == scale] ...}
SCALE_RULES ==
  [tier \in Range(ScaledQualityScaleTiers) |->
     LET of == SelectSeq(ALL_RULES, LAMBDA rule : rule.tier = tier)
     IN [k \in DOMAIN of |-> of[k].name]]

VALIDATORS ==
  {ALL_RULES[k].name : k \in {j \in DOMAIN ALL_RULES : ALL_RULES[j].validator}}

\* The catalog names in Python's str order, the order sorted() produces.
SortedNames ==
  <<
    "action-exceptions", "action-setup", "appropriate-polling",
    "async-dependency", "brands", "common-modules", "config-entry-unloading",
    "config-flow", "config-flow-test-coverage", "dependency-transparency",
    "devices", "diagnostics", "discovery", "discovery-update-info",
    "docs-actions", "docs-configuration-parameters", "docs-data-update",
    "docs-examples", "docs-high-level-description",
    "docs-installation-instructions", "docs-installation-parameters",
    "docs-known-limitations", "docs-removal-instructions",
    "docs-supported-devices", "docs-supported-functions",
    "docs-troubleshooting", "docs-use-cases", "dynamic-devices",
    "entity-category", "entity-device-class", "entity-disabled-by-default",
    "entity-event-setup", "entity-translations", "entity-unavailable",
    "entity-unique-id", "exception-translations", "has-entity-name",
    "icon-translations", "inject-websession", "integration-owner",
    "log-when-unavailable", "parallel-updates", "reauthentication-flow",
    "reconfiguration-flow", "repair-issues", "runtime-data", "stale-devices",
    "strict-typing", "test-before-configure", "test-before-setup",
    "test-coverage", "unique-config-entry"
  >>

\* sorted(names) for a set of catalog names
Sorted(names) == SelectSeq(SortedNames, LAMBDA n : n \in names)

RULE_URL(rule_name) ==
  << "Please check the documentation at https://developers.home-assistant.io/docs/core/integration-quality-scale/rules/",
     rule_name, "/" >>

\* Members of the two static lists that the modelled domains are drawn from.
INTEGRATIONS_WITHOUT_QUALITY_SCALE_FILE == {"abode", "zwave_me"}

NO_QUALITY_SCALE == {"api", "zone"}

(***************************************************************************)
(* YAML values.  A value is a string, or one of two markers: Absent (the   *)
(* key is not there) and Sequence (a YAML list, which Python cannot hash). *)
(* A rule entry is a bare value (dict = FALSE, the value in `status`) or a *)
(* mapping with the keys status and comment; `other` says that the mapping *)
(* holds a further key.                                                    *)
(***************************************************************************)
Absent == "<absent>"
Sequence == "<sequence>"

IsStr(v) == v \notin {Absent, Sequence}

Bare(value) ==
  [dict |-> FALSE, status |-> value, comment |-> Absent, other |-> FALSE]

EntryWith(status, comment, other) ==
  [dict |-> TRUE, status |-> status, comment |-> comment, other |-> other]

Entry(status, comment) == EntryWith(status, comment, FALSE)

\* The rules mapping of a parsed document.  A document stores the entries
\* it spells out (entries) and the tier up to which every other catalog
\* rule is listed as a justified exemption (exempt_through, 0 for none).
RulesThrough ==
  [t \in {0} \cup Range(ScaledQualityScaleTiers) |->
     {ALL_RULES[k].name :
        k \in {j \in DOMAIN ALL_RULES : ALL_RULES[j].tier <= t}}]

Rules(data) ==
  [n \in RulesThrough[data.exempt_through] \cup DOMAIN data.entries |->
     IF n \in DOMAIN data.entries THEN data.entries[n]
     ELSE Entry("exempt", "not applicable")]

(***************************************************************************)
(* SCHEMA                                                                  *)
(***************************************************************************)
\* SCHEMA with the comment of an exemption made optional
EntryValidAnyComment(e) ==
  \/ ~e.dict /\ e.status \in {"todo", "done"}
  \/ e.dict /\ e.status \in {"todo", "done", "exempt"}
            /\ (e.comment = Absent \/ IsStr(e.comment))
            /\ ~e.other

\* vol.Any of the three entry schemas; a schema built from a dict rejects
\* keys it does not name
EntryValid(e) ==
  \/ ~e.dict /\ e.status \in {"todo", "done"}
  \/ e.dict /\ e.status \in {"todo", "done"}
            /\ (e.comment = Absent \/ IsStr(e.comment))
            /\ ~e.other
  \/ e.dict /\ e.status = "exempt" /\ IsStr(e.comment) /\ ~e.other

SchemaValid(data) ==
  /\ data.rules = "mapping"
  /\ ~data.extra
  /\ LET rules == Rules(data)
     IN \A n \in DOMAIN rules : n \in RuleNames /\ EntryValid(rules[n])

(***************************************************************************)
(* add_error("quality_scale", message)                                     *)
(***************************************************************************)
Error(message) == [category |-> "quality_scale", message |-> message]

\* mutant: an error that some list already holds is not added again
AddErrorsUnseen(sinks, i, new) ==
  [sinks EXCEPT ![i] =
     @ \o SelectSeq(new, LAMBDA e : \A j \in DOMAIN sinks :
                                      \A k \in DOMAIN sinks[j] : sinks[j][k] # e)]

\* mutant: the errors land on a sink shared by all integrations
AddErrorsShared(sinks, i, new) == [j \in DOMAIN sinks |-> sinks[j] \o new]

\* integration.add_error for each error of `new`, on the sink of integration i
AddErrors(sinks, i, new) == [sinks EXCEPT ![i] = @ \o new]

(***************************************************************************)
(* validate_iqs_file, piece by piece                                       *)
(***************************************************************************)
\* mutant: any quality_scale the manifest sets counts as a declared tier
DeclaredAnyScale(integration) ==
  IF integration.quality_scale \in DOMAIN QUALITY_SCALE_TIERS
  THEN {QUALITY_SCALE_TIERS[integration.quality_scale]}
  ELSE IF integration.quality_scale # Absent THEN {BRONZE} ELSE {}

\* declared_quality_scale as an option: {} for None, {tier} otherwise
DeclaredQualityScale(integration) ==
  IF integration.quality_scale \in DOMAIN QUALITY_SCALE_TIERS
  THEN {QUALITY_SCALE_TIERS[integration.quality_scale]}
  ELSE {}

NOT_FOUND_NEW ==
  << "Quality scale definition not found. New integrations are required to at least reach the Bronze tier." >>
NOT_FOUND_DECLARED ==
  << "Quality scale definition not found. Integrations that set a manifest quality scale must have a quality scale definition." >>
VIRTUAL_FILE ==
  << "Virtual integrations are not allowed to have a quality scale file." >>
FORBIDDEN_FILE ==
  << "This integration is not supposed to have a quality scale file." >>
STALE_LIST ==
  << "Quality scale file found! Please remove from script/hassfest/quality_scale.py" >>
INVALID_YAML == << "Invalid quality_scale.yaml" >>

\* mutant: the first branch does not return, so a declared tier adds a
\* second error
MissingFileNoReturn(integration) ==
  (IF /\ integration.domain \notin INTEGRATIONS_WITHOUT_QUALITY_SCALE_FILE
      /\ integration.domain \notin NO_QUALITY_SCALE
      /\ integration.integration_type # "virtual"
   THEN << Error(NOT_FOUND_NEW) >>
   ELSE << >>)
  \o (IF DeclaredQualityScale(integration) # {}
      THEN << Error(NOT_FOUND_DECLARED) >>
      ELSE << >>)

\* mutant: a domain of NO_QUALITY_SCALE without a file is never an error
MissingFileForbiddenSilent(integration) ==
  IF /\ integration.domain \notin INTEGRATIONS_WITHOUT_QUALITY_SCALE_FILE
     /\ integration.domain \notin NO_QUALITY_SCALE
     /\ integration.integration_type # "virtual"
  THEN << Error(NOT_FOUND_NEW) >>
  ELSE IF /\ DeclaredQualityScale(integration) # {}
          /\ integration.domain \notin NO_QUALITY_SCALE
       THEN << Error(NOT_FOUND_DECLARED) >>
       ELSE << >>

\* the branch taken when quality_scale.yaml is not a file
MissingFileErrors(integration) ==
  IF /\ integration.domain \notin INTEGRATIONS_WITHOUT_QUALITY_SCALE_FILE
     /\ integration.domain \notin NO_QUALITY_SCALE
     /\ integration.integration_type # "virtual"
  THEN << Error(NOT_FOUND_NEW) >>
  ELSE IF DeclaredQualityScale(integration) # {}
       THEN << Error(NOT_FOUND_DECLARED) >>
       ELSE << >>

\* mutant: the NO_QUALITY_SCALE check comes before the virtual check
PresentFileForbiddenFirst(integration) ==
  IF integration.domain \in NO_QUALITY_SCALE
  THEN << Error(FORBIDDEN_FILE) >>
  ELSE IF integration.integration_type = "virtual"
       THEN << Error(VIRTUAL_FILE) >>
       ELSE IF integration.domain \in INTEGRATIONS_WITHOUT_QUALITY_SCALE_FILE
            THEN << Error(STALE_LIST) >>
            ELSE << >>

\* mutant: the NO_QUALITY_SCALE check is missing
PresentFileNoForbidden(integration) ==
  IF integration.integration_type = "virtual"
  THEN << Error(VIRTUAL_FILE) >>
  ELSE IF integration.domain \in INTEGRATIONS_WITHOUT_QUALITY_SCALE_FILE
       THEN << Error(STALE_LIST) >>
       ELSE << >>

\* the three checks made when quality_scale.yaml is a file; << >> when
\* none applies
PresentFileErrors(integration) ==
  IF integration.integration_type = "virtual"
  THEN << Error(VIRTUAL_FILE) >>
  ELSE IF integration.domain \in NO_QUALITY_SCALE
       THEN << Error(FORBIDDEN_FILE) >>
       ELSE IF integration.domain \in INTEGRATIONS_WITHOUT_QUALITY_SCALE_FILE
            THEN << Error(STALE_LIST) >>
            ELSE << >>

\* name = str(iqs_file)
FileName(integration) == << integration.domain, "/quality_scale.yaml" >>

\* SCHEMA(data); the text of humanize_error is voluptuous's
SchemaErrors(integration, data) ==
  IF SchemaValid(data)
  THEN << >>
  ELSE << Error(<< "Invalid " >> \o FileName(integration)
                \o << ": ", "<humanize_error>" >>) >>

\* status = rule_value["status"] if isinstance(rule_value, dict) else rule_value
\* raises KeyError when the mapping has no status key; the membership test
\* that follows raises TypeError when the status cannot be hashed
StatusRaises(e) == (e.dict /\ e.status = Absent) \/ e.status = Sequence

\* data.get("rules", {}).items() raises AttributeError unless rules is a
\* mapping (or missing)
RulesLoopRaises(data) ==
  \/ data.rules = "sequence"
  \/ /\ data.rules = "mapping"
     /\ LET rules == Rules(data)
        IN \E n \in DOMAIN rules : StatusRaises(rules[n])

Items(data) == IF data.rules = "mapping" THEN Rules(data) ELSE << >>

\* mutant: an exemption counts as met only when it carries a comment
RulesMetJustified(data) ==
  LET items == Items(data)
  IN {n \in DOMAIN items :
        \/ items[n].status = "done"
        \/ items[n].status = "exempt" /\ IsStr(items[n].comment)}

\* rules_met after the loop over data.get("rules", {}).items()
RulesMet(data) ==
  LET items == Items(data)
  IN {n \in DOMAIN items : items[n].status \in {"done", "exempt"}}

RulesDone(data) ==
  LET items == Items(data)
  IN {n \in DOMAIN items : items[n].status = "done"}

(***************************************************************************)
(* Collaborator calls, as logged in `calls`.                               *)
(***************************************************************************)
Call(op, rule, rules_done, returned) ==
  [op |-> op, rule |-> rule, rules_done |-> rules_done, returned |-> returned]

LoadCall == Call("load_yaml_dict", "", {}, << >>)
SchemaCall == Call("SCHEMA", "", {}, << >>)

\* what the validator of rule_name returns; rules without a validator are
\* skipped by the walrus test
Returned(rule_name, returned) ==
  IF rule_name \in VALIDATORS THEN returned[rule_name] ELSE << >>

\* mutant: the documentation link is added inside the loop over the errors
RuleErrorsLinkEach(rule_name, errs) ==
  IF errs = << >>
  THEN << >>
  ELSE [k \in 1..(2 * Len(errs)) |->
          IF k % 2 = 1
          THEN Error(<< "[", rule_name, "] ", errs[(k + 1) \div 2] >>)
          ELSE Error(RULE_URL(rule_name))]

\* the errors added for one rule: every returned string tagged with the rule
\* name, then the documentation link
RuleErrors(rule_name, errs) ==
  IF errs = << >>
  THEN << >>
  ELSE [k \in DOMAIN errs |-> Error(<< "[", rule_name, "] ", errs[k] >>)]
       \o << Error(RULE_URL(rule_name)) >>

RECURSIVE ValidatorErrors(_, _)
\* for rule_name in rules_done: ..., visiting rules_done in `order`
ValidatorErrors(order, returned) ==
  IF order = << >>
  THEN << >>
  ELSE RuleErrors(Head(order), Returned(Head(order), returned))
       \o ValidatorErrors(Tail(order), returned)

\* the validator.validate calls of that loop
ValidatorCalls(order, rules_done, returned) ==
  LET bound == SelectSeq(order, LAMBDA n : n \in VALIDATORS)
  IN [k \in DOMAIN bound |->
        Call("validate", bound[k], rules_done, returned[bound[k]])]

\* f"  {rule}: todo" for every rule, joined by newlines
RECURSIVE FriendlyRuleStr(_)
FriendlyRuleStr(rules) ==
  IF rules = << >>
  THEN << >>
  ELSE << "  ", Head(rules), ": todo" >>
       \o (IF Tail(rules) = << >> THEN << >> ELSE << "\n" >>)
       \o FriendlyRuleStr(Tail(rules))

ShortfallError(scale, missing_rules) ==
  Error(<< "Quality scale tier ", TierName(scale),
           " requires quality scale rules to be met:\n" >>
        \o FriendlyRuleStr(Sorted(missing_rules)))

RECURSIVE TierWalk(_, _, _)
\* for scale in ScaledQualityScaleTiers, from position k on
TierWalk(k, declared, rules_met) ==
  IF k > Len(ScaledQualityScaleTiers)
  THEN << >>
  ELSE LET scale == ScaledQualityScaleTiers[k]
           missing_rules == Range(SCALE_RULES[scale]) \ rules_met
       IN IF scale > declared
          THEN << >>
          ELSE (IF missing_rules # {}
                THEN << ShortfallError(scale, missing_rules) >>
                ELSE << >>)
               \o TierWalk(k + 1, declared, rules_met)

\* mutant: only the declared tier is checked, not the tiers below it
TierErrorsDeclaredOnly(declared_quality_scale, rules_met) ==
  IF declared_quality_scale = {}
  THEN << >>
  ELSE LET scale == CHOOSE d \in declared_quality_scale : TRUE
           missing_rules == Range(SCALE_RULES[scale]) \ rules_met
       IN IF missing_rules # {}
          THEN << ShortfallError(scale, missing_rules) >>
          ELSE << >>

TierErrors(declared_quality_scale, rules_met) ==
  IF declared_quality_scale = {}
  THEN << >>
  ELSE TierWalk(1, CHOOSE d \in declared_quality_scale : TRUE, rules_met)

Outcome(errs, made, exc) == [errors |-> errs, calls |-> made, raised |-> exc]

\* mutant: the except branch does not return; the checks go on with an
\* empty document
LoadFailureNoReturn(integration) ==
  Outcome(<< Error(INVALID_YAML) >>
          \o TierErrors(DeclaredQualityScale(integration), {}),
          << LoadCall, SchemaCall >>, FALSE)

\* load_yaml_dict raises HomeAssistantError
LoadFailure(integration) ==
  Outcome(<< Error(INVALID_YAML) >>, << LoadCall >>, FALSE)

\* what a validator may return: up to MaxErrors error strings
ErrorStrings == {"e1", "e2"}
Results == UNION {[1..n -> ErrorStrings] : n \in 0..MaxErrors}

\* the orders in which a set can be iterated
Orders(S) ==
  {o \in [1..Cardinality(S) -> S] : \A a, b \in DOMAIN o : o[a] = o[b] => a = b}

\* From load_yaml_dict to the end of the function, for a document that
\* parses: the outcomes the call can have, one for every iteration order of
\* rules_done and every result the validators return.
FullValidation(integration) ==
  LET data == integration.file.data
      schema == SchemaErrors(integration, data)
      rules_met == RulesMet(data)
      rules_done == RulesDone(data)
      shortfall == TierErrors(DeclaredQualityScale(integration), rules_met)
  IN IF RulesLoopRaises(data)
     THEN {Outcome(schema, << LoadCall, SchemaCall >>, TRUE)}
     ELSE {Outcome(schema \o ValidatorErrors(order, returned) \o shortfall,
                   << LoadCall, SchemaCall >>
                   \o ValidatorCalls(order, rules_done, returned),
                   FALSE) :
             order \in Orders(rules_done),
             returned \in [rules_done \cap VALIDATORS -> Results]}

\* validate_iqs_file(config, integration): its possible outcomes
ValidateIqsFile(integration) ==
  IF ~integration.core
  THEN {Outcome(<< >>, << >>, FALSE)}
  ELSE IF ~integration.file.is_file
  THEN {Outcome(MissingFileErrors(integration), << >>, FALSE)}
  ELSE IF PresentFileErrors(integration) # << >>
  THEN {Outcome(PresentFileErrors(integration), << >>, FALSE)}
  ELSE IF ~integration.file.parses
  THEN {LoadFailure(integration)}
  ELSE FullValidation(integration)

(***************************************************************************)
(* Inputs.                                                                 *)
(***************************************************************************)
Types == {"hub", "virtual"}
Domains == {"abode", "zone", "acme"}
\* Absent: the manifest sets no quality_scale; "legacy" names no scaled tier
Scales == {Absent, "bronze", "silver", "gold", "platinum", "legacy"}

EntryForms ==
  { Bare("todo"), Bare("done"), Bare("exempt"),
    Entry("todo", Absent), Entry("done", Absent), Entry("exempt", "why"),
    Entry("exempt", Absent), Entry(Absent, "why"), Entry(Sequence, Absent) }

\* the rules a document spells out, and the entries tried for each
FocusForms ==
  [n \in {"config-flow", "diagnostics", "brands"} |->
     CASE n = "config-flow" -> EntryForms
       [] n = "diagnostics" -> {Bare("done"), Entry("todo", "later"), Bare("exempt")}
       [] n = "brands" -> {Entry("done", "yes"), Bare("todo")}]

EntrySets ==
  UNION { {e \in [S -> UNION Range(FocusForms)] : \A n \in S : e[n] \in FocusForms[n]} :
          S \in SUBSET DOMAIN FocusForms }

NoEntries == [n \in {} |-> Bare("todo")]

Data(rules, extra, exempt_through, entries) ==
  [rules |-> rules, extra |-> extra, exempt_through |-> exempt_through,
   entries |-> entries]

Documents ==
  { Data("mapping", FALSE, t, e) : t \in 0..PLATINUM, e \in EntrySets }
  \cup { Data("absent", FALSE, 0, NoEntries), Data("sequence", FALSE, 0, NoEntries),
         Data("mapping", TRUE, BRONZE, NoEntries) }

File(is_file, parses, data) == [is_file |-> is_file, parses |-> parses, data |-> data]

NoFile == File(FALSE, FALSE, Data("absent", FALSE, 0, NoEntries))
Unparseable == File(TRUE, FALSE, Data("absent", FALSE, 0, NoEntries))

Files == {NoFile, Unparseable} \cup {File(TRUE, TRUE, d) : d \in Documents}

Integrations ==
  [core : BOOLEAN, integration_type : Types, domain : Domains,
   quality_scale : Scales, file : Files]

(***************************************************************************)
(* validate(): one iteration of its loop per step.                         *)
(***************************************************************************)
Fresh(registry) ==
  /\ integrations = registry
  /\ errors = [k \in DOMAIN registry |-> << >>]
  /\ calls = [k \in DOMAIN registry |-> << >>]
  /\ idx = 1
  /\ raised = FALSE

\* a registry holding one integration, of any kind
Init == \E i \in Integrations : Fresh(<< i >>)

Integration(core, integration_type, domain, quality_scale, file) ==
  [core |-> core, integration_type |-> integration_type, domain |-> domain,
   quality_scale |-> quality_scale, file |-> file]

DoneDocument ==
  Data("mapping", FALSE, BRONZE,
       [n \in {"config-flow", "brands"} |-> Bare("done")])

NoStatusDocument ==
  Data("mapping", FALSE, 0,
       [n \in {"config-flow", "diagnostics"} |->
          IF n = "config-flow" THEN Entry(Absent, "why") ELSE Bare("done")])

\* the integrations a larger registry is filled with
Representatives ==
  { Integration(FALSE, "hub", "acme", "gold", File(TRUE, TRUE, DoneDocument)),
    Integration(FALSE, "virtual", "zone", "bronze", NoFile),
    Integration(FALSE, "hub", "abode", "legacy", Unparseable),
    Integration(FALSE, "hub", "acme", Absent, File(TRUE, TRUE, NoStatusDocument)),
    Integration(TRUE, "hub", "acme", Absent, NoFile),
    Integration(TRUE, "hub", "acme", "gold", Unparseable),
    Integration(TRUE, "hub", "acme", Absent, Unparseable),
    Integration(TRUE, "hub", "acme", "silver", File(TRUE, TRUE, DoneDocument)),
    Integration(TRUE, "hub", "acme", "bronze", File(TRUE, TRUE, NoStatusDocument)),
    Integration(TRUE, "hub", "zone", Absent, File(TRUE, TRUE, DoneDocument)),
    Integration(TRUE, "virtual", "abode", "legacy", NoFile) }

\* a registry of NumIntegrations integrations
InitRegistry ==
  \E registry \in [1..NumIntegrations -> Representatives] : Fresh(registry)

\* validate_iqs_file(config, integration) returns and the loop moves on
ValidateReturns ==
  /\ idx <= Len(integrations)
  /\ ~raised
  /\ \E out \in ValidateIqsFile(integrations[idx]) :
       /\ ~out.raised
       /\ errors' = AddErrors(errors, idx, out.errors)
       /\ calls' = [calls EXCEPT ![idx] = @ \o out.calls]
  /\ idx' = idx + 1
  /\ UNCHANGED <<integrations, raised>>

\* validate_iqs_file(config, integration) raises; nothing in validate()
\* catches the exception, so the loop ends there
ValidateRaises ==
  /\ idx <= Len(integrations)
  /\ ~raised
  /\ \E out \in ValidateIqsFile(integrations[idx]) :
       /\ out.raised
       /\ errors' = AddErrors(errors, idx, out.errors)
       /\ calls' = [calls EXCEPT ![idx] = @ \o out.calls]
  /\ raised' = TRUE
  /\ UNCHANGED <<integrations, idx>>

Next == ValidateReturns \/ ValidateRaises

Spec == Init /\ [][Next]_vars

SpecRegistry == InitRegistry /\ [][Next]_vars

(***************************************************************************)
(* Documents of every shape SCHEMA tells apart, for one core integration   *)
(* whose file is read and parsed.                                          *)
(***************************************************************************)
\* statuses and comments a document may carry: the three the schema names,
\* another string, a missing key, a value that is no string
SchemaStatuses == {"todo", "done", "exempt", "maybe", Absent, Sequence}

SchemaComments == {Absent, "why", Sequence}

SchemaForms ==
  { Bare(v) : v \in SchemaStatuses \ {Absent} }
  \cup { EntryWith(st, c, o) :
           st \in SchemaStatuses, c \in SchemaComments, o \in BOOLEAN }

\* a catalog rule in any form, and a key that names no rule
SchemaFocus ==
  [n \in {"config-flow", "made-up-rule"} |->
     IF n = "config-flow" THEN SchemaForms
     ELSE {Bare("done"), Entry("exempt", "why")}]

SchemaEntrySets ==
  UNION { {e \in [S -> SchemaForms] : \A n \in S : e[n] \in SchemaFocus[n]} :
          S \in SUBSET DOMAIN SchemaFocus }

SchemaDocuments ==
  { Data("mapping", x, t, e) :
      x \in BOOLEAN, t \in {0, BRONZE}, e \in SchemaEntrySets }
  \cup { Data(r, x, 0, NoEntries) : r \in {"absent", "sequence"}, x \in BOOLEAN }

InitSchema ==
  \E d \in SchemaDocuments, q \in {Absent, "bronze"} :
    Fresh(<< Integration(TRUE, "hub", "acme", q, File(TRUE, TRUE, d)) >>)

SpecSchema == InitSchema /\ [][Next]_vars

(***************************************************************************)
(* The same integration validated twice: a registry that holds it twice,   *)
(* so that each run has its own error list.                                *)
(***************************************************************************)
TwoDoneDocument ==
  Data("mapping", FALSE, BRONZE,
       [n \in {"config-flow", "diagnostics"} |-> Bare("done")])

OneDoneDocument ==
  Data("mapping", TRUE, 0,
       [n \in {"config-flow", "brands"} |->
          IF n = "config-flow" THEN Entry("done", "yes") ELSE Bare("exempt")])

TwiceIntegrations ==
  { Integration(TRUE, "hub", "acme", "gold", File(TRUE, TRUE, TwoDoneDocument)),
    Integration(TRUE, "hub", "acme", "silver", File(TRUE, TRUE, OneDoneDocument)),
    Integration(TRUE, "hub", "acme", "bronze", File(TRUE, TRUE, NoStatusDocument)),
    Integration(TRUE, "hub", "abode", "platinum", File(TRUE, TRUE, DoneDocument)),
    Integration(TRUE, "hub", "acme", "platinum",
                File(TRUE, TRUE, Data("mapping", FALSE, 0, NoEntries))),
    Integration(TRUE, "hub", "acme", "bronze", Unparseable),
    Integration(TRUE, "hub", "acme", "legacy", NoFile),
    Integration(FALSE, "hub", "acme", "gold", File(TRUE, TRUE, TwoDoneDocument)) }

InitTwice == \E g \in TwiceIntegrations : Fresh(<< g, g >>)

SpecTwice == InitTwice /\ [][Next]_vars

(***************************************************************************)
(* Vocabulary of the properties.                                           *)
(***************************************************************************)
\* validate_iqs_file has run on integration i (and returned or raised)
Processed(i) == i < idx \/ (raised /\ i = idx)

\* the presence checks let the call through to load_yaml_dict
PassesPresence(g) ==
  /\ g.core
  /\ g.file.is_file
  /\ g.integration_type # "virtual"
  /\ g.domain \notin NO_QUALITY_SCALE
  /\ g.domain \notin INTEGRATIONS_WITHOUT_QUALITY_SCALE_FILE

ReachesFullValidation(g) == PassesPresence(g) /\ g.file.parses

\* every rule the document lists is given a status, a string
StatusesGiven(data) ==
  /\ data.rules # "sequence"
  /\ \A n \in DOMAIN data.entries : IsStr(data.entries[n].status)

AllTiers == {BRONZE, SILVER, GOLD, PLATINUM}

RequiredRules(t) ==
  {ALL_RULES[k].name : k \in {j \in DOMAIN ALL_RULES : ALL_RULES[j].tier = t}}

Position(name) == CHOOSE k \in DOMAIN SortedNames : SortedNames[k] = name

IsShortfall(e) == e.message[1] = "Quality scale tier "
ShortfallTier(e) == CHOOSE t \in AllTiers : TierName(t) = e.message[2]
\* the rule names a tier-shortfall message lists, in the order listed
ListedRules(e) ==
  [k \in 1..((Len(e.message) - 2) \div 4) |-> e.message[4 * k + 1]]

IsTagged(e, rule) ==
  Len(e.message) = 4 /\ e.message[1] = "[" /\ e.message[2] = rule
IsLink(e, rule) ==
  /\ Len(e.message) = 3
  /\ e.message[1] = "Please check the documentation at https://developers.home-assistant.io/docs/core/integration-quality-scale/rules/"
  /\ e.message[2] = rule
IsSchemaError(e) == e.message[1] = "Invalid "

ValidatorCallsOf(i) == SelectSeq(calls[i], LAMBDA c : c.op = "validate")

(***************************************************************************)
(* C1.  When full validation is reached and every listed rule has a status *)
(* (a set of rule statuses): with tier D declared, the tier-shortfall      *)
(* errors of the call are, in ascending tier order, exactly one for every  *)
(* tier t <= D whose required rules are not all in rules_met, each listing *)
(* exactly the missing rules of its own tier in sorted order; with no tier *)
(* declared there is no tier-shortfall error.                              *)
(***************************************************************************)
C1_TierShortfall ==
  \A i \in DOMAIN integrations :
    LET g == integrations[i]
    IN (Processed(i) /\ ReachesFullValidation(g) /\ StatusesGiven(g.file.data))
       =>
       LET shortfalls == SelectSeq(errors[i], IsShortfall)
           declared == {t \in AllTiers : TierName(t) = g.quality_scale}
           met == RulesMet(g.file.data)
           due == {t \in AllTiers :
                     /\ \E d \in declared : t <= d
                     /\ RequiredRules(t) \ met # {}}
       IN /\ i < idx
          /\ Len(shortfalls) = Cardinality(due)
          /\ \A k \in DOMAIN shortfalls :
               LET t == ShortfallTier(shortfalls[k])
                   listed == ListedRules(shortfalls[k])
               IN /\ t \in due
                  /\ Range(listed) = RequiredRules(t) \ met
                  /\ \A a, b \in DOMAIN listed :
                       a < b => Position(listed[a]) < Position(listed[b])
                  /\ \A l \in DOMAIN shortfalls :
                       k < l => t < ShortfallTier(shortfalls[l])

\* Gold declared, the Bronze rules met and nothing else: a Silver and a Gold
\* shortfall error, none for Bronze or Platinum.
C1_Witness ==
  \E i \in DOMAIN integrations :
    /\ i < idx
    /\ ReachesFullValidation(integrations[i])
    /\ integrations[i].quality_scale = "gold"
    /\ RulesMet(integrations[i].file.data) = RequiredRules(BRONZE)
    /\ LET shortfalls == SelectSeq(errors[i], IsShortfall)
       IN /\ Len(shortfalls) = 2
          /\ ShortfallTier(shortfalls[1]) = SILVER
          /\ ShortfallTier(shortfalls[2]) = GOLD
          /\ Len(ListedRules(shortfalls[2])) = Cardinality(RequiredRules(GOLD))

(***************************************************************************)
(* C2.  In every full validation the validators invoked are exactly those  *)
(* bound to the rules whose declared status is "done", each invoked once   *)
(* and each handed the full set of done rule names.                        *)
(***************************************************************************)
DeclaredDone(data) ==
  IF data.rules = "mapping"
  THEN {n \in DOMAIN Rules(data) : Rules(data)[n].status = "done"}
  ELSE {}

ValidatorsMatchDone(i) ==
  LET invoked == ValidatorCallsOf(i)
      done == DeclaredDone(integrations[i].file.data)
  IN /\ {invoked[k].rule : k \in DOMAIN invoked} = done \cap VALIDATORS
     /\ Len(invoked) = Cardinality(done \cap VALIDATORS)
     /\ \A k \in DOMAIN invoked : invoked[k].rules_done = done

C2_ValidatorsOfDoneRules ==
  \A i \in DOMAIN integrations :
    (Processed(i) /\ ReachesFullValidation(integrations[i]))
    => ValidatorsMatchDone(i)

\* C2 restricted to the calls that return: there it holds, so the only
\* full validations that break C2 are those in which the rules loop raises.
C2_WhenTheCallReturns ==
  \A i \in DOMAIN integrations :
    (i < idx /\ ReachesFullValidation(integrations[i]))
    => ValidatorsMatchDone(i)

(***************************************************************************)
(* C3.  A validator that returns n > 0 error strings adds n errors         *)
(* "[rule] string" in the returned order, directly followed by one         *)
(* documentation-link error for the rule, and these are the only errors    *)
(* that carry the rule name; a validator that returns nothing adds none.   *)
(***************************************************************************)
C3_RuleErrors ==
  \A i \in DOMAIN integrations :
    \A c \in Range(ValidatorCallsOf(i)) :
      LET n == Len(c.returned)
          tagged == {p \in DOMAIN errors[i] : IsTagged(errors[i][p], c.rule)}
          links == {p \in DOMAIN errors[i] : IsLink(errors[i][p], c.rule)}
      IN IF n = 0
         THEN tagged = {} /\ links = {}
         ELSE \E p \in DOMAIN errors[i] :
                /\ tagged = p..(p + n - 1)
                /\ links = {p + n}
                /\ \A j \in 1..n :
                     errors[i][p + j - 1].message[4] = c.returned[j]

\* two validators ran, the first returned two different strings and the
\* second returned one
C3_Witness ==
  \E i \in DOMAIN integrations :
    /\ i < idx
    /\ Len(ValidatorCallsOf(i)) = 2
    /\ ValidatorCallsOf(i)[1].returned = << "e2", "e1" >>
    /\ Len(ValidatorCallsOf(i)[2].returned) = 1
    /\ Len(errors[i]) >= 5

(***************************************************************************)
(* C4.  A core, non-virtual integration in neither list that has no        *)
(* quality_scale.yaml gets exactly one error, the "New integrations are    *)
(* required to at least reach the Bronze tier" one, whatever its manifest  *)
(* quality_scale.                                                          *)
(***************************************************************************)
C4_FileRequired ==
  \A i \in DOMAIN integrations :
    LET g == integrations[i]
    IN (/\ Processed(i)
        /\ g.core
        /\ g.integration_type # "virtual"
        /\ g.domain \notin NO_QUALITY_SCALE
        /\ g.domain \notin INTEGRATIONS_WITHOUT_QUALITY_SCALE_FILE
        /\ ~g.file.is_file)
       => /\ Len(errors[i]) = 1
          /\ errors[i][1].category = "quality_scale"
          /\ errors[i][1].message = << "Quality scale definition not found. New integrations are required to at least reach the Bronze tier." >>
          /\ calls[i] = << >>

C4_Witness ==
  \E i \in DOMAIN integrations :
    /\ i < idx
    /\ integrations[i].core
    /\ integrations[i].integration_type = "hub"
    /\ integrations[i].domain = "acme"
    /\ ~integrations[i].file.is_file
    /\ integrations[i].quality_scale = "gold"
    /\ Len(errors[i]) = 1

(***************************************************************************)
(* C5.  With a quality_scale.yaml present, the checks are virtual, then    *)
(* NO_QUALITY_SCALE, then INTEGRATIONS_WITHOUT_QUALITY_SCALE_FILE: the     *)
(* first that applies adds its one error and ends the call before any      *)
(* load, schema check, validator or tier check; when none applies the      *)
(* call goes on to load the document.                                      *)
(***************************************************************************)
C5_PresenceOrder ==
  \A i \in DOMAIN integrations :
    LET g == integrations[i]
        only(message) == errors[i] = << Error(message) >> /\ calls[i] = << >>
    IN (Processed(i) /\ g.core /\ g.file.is_file)
       => IF g.integration_type = "virtual"
          THEN only(<< "Virtual integrations are not allowed to have a quality scale file." >>)
          ELSE IF g.domain \in NO_QUALITY_SCALE
          THEN only(<< "This integration is not supposed to have a quality scale file." >>)
          ELSE IF g.domain \in INTEGRATIONS_WITHOUT_QUALITY_SCALE_FILE
          THEN only(<< "Quality scale file found! Please remove from script/hassfest/quality_scale.py" >>)
          ELSE calls[i] # << >> /\ calls[i][1].op = "load_yaml_dict"

\* a virtual integration of a NO_QUALITY_SCALE domain with a file whose
\* document would fail every later check
C5_Witness ==
  \E i \in DOMAIN integrations :
    /\ i < idx
    /\ integrations[i].core
    /\ integrations[i].integration_type = "virtual"
    /\ integrations[i].domain \in NO_QUALITY_SCALE
    /\ integrations[i].file.is_file /\ integrations[i].file.parses
    /\ integrations[i].quality_scale = "platinum"
    /\ DeclaredDone(integrations[i].file.data) \cap VALIDATORS # {}
    /\ Len(errors[i]) = 1

(***************************************************************************)
(* C6.  As claimed: a core, non-virtual integration of a NO_QUALITY_SCALE  *)
(* domain without a quality_scale.yaml gets no error, whatever its         *)
(* manifest quality_scale.                                                 *)
(***************************************************************************)
ForbiddenWithoutFile(g) ==
  /\ g.core
  /\ g.integration_type # "virtual"
  /\ g.domain \in NO_QUALITY_SCALE
  /\ ~g.file.is_file

C6_AsClaimed ==
  \A i \in DOMAIN integrations :
    (Processed(i) /\ ForbiddenWithoutFile(integrations[i]))
    => errors[i] = << >>

(***************************************************************************)
(* C6, amended.  Such an integration gets no error unless its manifest     *)
(* quality_scale names a scaled tier; then it gets exactly one error,      *)
(* "Integrations that set a manifest quality scale must have a quality     *)
(* scale definition".                                                      *)
(***************************************************************************)
C6_Amended ==
  \A i \in DOMAIN integrations :
    LET g == integrations[i]
    IN (Processed(i) /\ ForbiddenWithoutFile(g))
       => /\ calls[i] = << >>
          /\ IF g.quality_scale \in {"bronze", "silver", "gold", "platinum"}
             THEN errors[i] = << Error(<< "Quality scale definition not found. Integrations that set a manifest quality scale must have a quality scale definition." >>) >>
             ELSE errors[i] = << >>

C6_Witness ==
  \E i \in DOMAIN integrations :
    /\ i < idx
    /\ ForbiddenWithoutFile(integrations[i])
    /\ integrations[i].quality_scale = "gold"
    /\ Len(errors[i]) = 1

(***************************************************************************)
(* C7.  As claimed: a core integration without a quality_scale.yaml that   *)
(* is virtual or of an INTEGRATIONS_WITHOUT_QUALITY_SCALE_FILE domain gets *)
(* exactly one error when quality_scale is set on its manifest and none    *)
(* when it is not set.                                                     *)
(***************************************************************************)
ExemptWithoutFile(g) ==
  /\ g.core
  /\ ~g.file.is_file
  /\ \/ g.integration_type = "virtual"
     \/ g.domain \in INTEGRATIONS_WITHOUT_QUALITY_SCALE_FILE

MustHaveDefinition ==
  << Error(<< "Quality scale definition not found. Integrations that set a manifest quality scale must have a quality scale definition." >>) >>

C7_AsClaimed ==
  \A i \in DOMAIN integrations :
    LET g == integrations[i]
    IN (Processed(i) /\ ExemptWithoutFile(g))
       => IF g.quality_scale # Absent
          THEN errors[i] = MustHaveDefinition
          ELSE errors[i] = << >>

(***************************************************************************)
(* C7, amended.  Such an integration gets exactly that one error when its  *)
(* quality_scale names a scaled tier (bronze, silver, gold, platinum), and *)
(* no error when quality_scale is unset or names no scaled tier.           *)
(***************************************************************************)
C7_Amended ==
  \A i \in DOMAIN integrations :
    LET g == integrations[i]
    IN (Processed(i) /\ ExemptWithoutFile(g))
       => /\ calls[i] = << >>
          /\ IF g.quality_scale \in {"bronze", "silver", "gold", "platinum"}
             THEN errors[i] = MustHaveDefinition
             ELSE errors[i] = << >>

\* both halves happen: a scaled tier gives the error, "legacy" gives none
C7_Witness ==
  \E i \in DOMAIN integrations :
    /\ i < idx
    /\ ExemptWithoutFile(integrations[i])
    /\ \/ integrations[i].quality_scale = "legacy" /\ errors[i] = << >>
       \/ integrations[i].quality_scale = "silver" /\ Len(errors[i]) = 1

(***************************************************************************)
(* C8.  As claimed: a core integration of a NO_QUALITY_SCALE domain that   *)
(* has a quality_scale.yaml gets exactly one error, "This integration is   *)
(* not supposed to have a quality scale file."                             *)
(***************************************************************************)
NotSupposed ==
  << Error(<< "This integration is not supposed to have a quality scale file." >>) >>

C8_AsClaimed ==
  \A i \in DOMAIN integrations :
    LET g == integrations[i]
    IN (Processed(i) /\ g.core /\ g.domain \in NO_QUALITY_SCALE /\ g.file.is_file)
       => errors[i] = NotSupposed

(***************************************************************************)
(* C8, amended.  A core, non-virtual integration of a NO_QUALITY_SCALE     *)
(* domain that has a quality_scale.yaml gets exactly that one error.       *)
(***************************************************************************)
C8_Amended ==
  \A i \in DOMAIN integrations :
    LET g == integrations[i]
    IN (/\ Processed(i)
        /\ g.core
        /\ g.integration_type # "virtual"
        /\ g.domain \in NO_QUALITY_SCALE
        /\ g.file.is_file)
       => errors[i] = NotSupposed /\ calls[i] = << >>

C8_Witness ==
  \E i \in DOMAIN integrations :
    /\ i < idx
    /\ integrations[i].core
    /\ integrations[i].integration_type = "hub"
    /\ integrations[i].domain = "zone"
    /\ integrations[i].file.is_file
    /\ errors[i] = NotSupposed

(***************************************************************************)
(* C9.  An integration with core = false never gets an error and none of   *)
(* its collaborators is called, whatever its file, type, domain, declared  *)
(* tier and document; and a step of validate() changes no sink but that of *)
(* the integration it is validating.                                       *)
(***************************************************************************)
NonCoreUntouched ==
  \A i \in DOMAIN integrations :
    ~integrations[i].core => errors[i] = << >> /\ calls[i] = << >>

OnlyOwnSink ==
  \A j \in DOMAIN errors : j # idx => errors'[j] = errors[j]

C9_NonCoreAndOwnSink == [](NonCoreUntouched) /\ [][OnlyOwnSink]_vars

\* a non-core integration whose file would give errors has been passed
\* over, and the core integration after it has its errors
C9_Witness ==
  /\ idx > 2
  /\ ~integrations[1].core
  /\ integrations[1].file.is_file /\ integrations[1].file.parses
  /\ integrations[1].quality_scale = "gold"
  /\ errors[1] = << >>
  /\ integrations[2].core
  /\ errors[2] # << >>

(***************************************************************************)
(* C10.  When the presence checks pass and the document does not parse,    *)
(* the call adds the one error "Invalid quality_scale.yaml", makes no      *)
(* schema check, calls no validator, adds no tier-shortfall error, and     *)
(* returns, so that validate() goes on with the next integration.          *)
(***************************************************************************)
C10_ParseFailure ==
  \A i \in DOMAIN integrations :
    LET g == integrations[i]
    IN (Processed(i) /\ PassesPresence(g) /\ ~g.file.parses)
       => /\ errors[i] = << Error(<< "Invalid quality_scale.yaml" >>) >>
          /\ \A k \in DOMAIN calls[i] : calls[i][k].op = "load_yaml_dict"
          /\ i < idx
          /\ ~(raised /\ idx = i)
          /\ (idx = i + 1 /\ i < Len(integrations) /\ ~raised) => ENABLED Next

\* the document of the first integration did not parse although it declares
\* a tier, and the second integration has been validated after it
C10_Witness ==
  /\ idx > 2
  /\ PassesPresence(integrations[1])
  /\ ~integrations[1].file.parses
  /\ integrations[1].quality_scale = "gold"
  /\ Len(errors[1]) = 1
  /\ integrations[2].core
  /\ errors[2] # << >>

(***************************************************************************)
(* C11.  A parsed document passes SCHEMA exactly when its only top-level   *)
(* key is `rules`, `rules` maps catalog rule names only, and every entry   *)
(* has one of three shapes: the bare string todo or done; a mapping with   *)
(* status todo or done and, optionally, a string comment; a mapping with   *)
(* status exempt and a string comment.  Every other document, such as one  *)
(* with an exempt entry that has no comment, a bare exempt, or the key     *)
(* made-up-rule, gets the schema error.                                    *)
(***************************************************************************)
BareShape(e) == ~e.dict /\ (e.status = "todo" \/ e.status = "done")

StatusShape(e) ==
  /\ e.dict
  /\ e.status = "todo" \/ e.status = "done"
  /\ e.comment # Absent => IsStr(e.comment)
  /\ ~e.other

ExemptShape(e) ==
  /\ e.dict
  /\ e.status = "exempt"
  /\ e.comment # Absent /\ IsStr(e.comment)
  /\ ~e.other

DocumentAsSpecified(data) ==
  /\ ~data.extra
  /\ data.rules = "mapping"
  /\ DOMAIN Rules(data) \subseteq RuleNames
  /\ \A n \in DOMAIN Rules(data) :
       LET e == Rules(data)[n]
       IN BareShape(e) \/ StatusShape(e) \/ ExemptShape(e)

HasSchemaError(i) == \E k \in DOMAIN errors[i] : IsSchemaError(errors[i][k])

C11_SchemaShapes ==
  \A i \in DOMAIN integrations :
    Processed(i) /\ ReachesFullValidation(integrations[i]) =>
      LET data == integrations[i].file.data
      IN /\ DocumentAsSpecified(data) <=> ~HasSchemaError(i)
         /\ HasSchemaError(i) => IsSchemaError(errors[i][1])
         /\ "made-up-rule" \in DOMAIN data.entries => HasSchemaError(i)
         /\ ("config-flow" \in DOMAIN data.entries
             /\ data.entries["config-flow"] \in
                  {Bare("exempt"), Entry("exempt", Absent)})
            => HasSchemaError(i)

\* a document of accepted shapes only has been validated without a schema
\* error
C11_Witness ==
  \E i \in DOMAIN integrations :
    /\ Processed(i)
    /\ ReachesFullValidation(integrations[i])
    /\ LET data == integrations[i].file.data
       IN /\ data.rules = "mapping"
          /\ data.exempt_through = BRONZE
          /\ DOMAIN data.entries = {"config-flow"}
          /\ data.entries["config-flow"] = Entry("done", "why")
          /\ ~data.extra
    /\ ~HasSchemaError(i)

(***************************************************************************)
(* C12.  validate_iqs_file ends normally for every integration and every   *)
(* parsed document, those that fail SCHEMA included: no exception leaves   *)
(* validate_iqs_file or validate, whatever the document holds.             *)
(***************************************************************************)
C12_NoExceptionPropagates ==
  /\ ~raised
  /\ \A i \in DOMAIN integrations : Processed(i) => i < idx

\* the calls that do raise are those the rules loop raises in; each has
\* reported the schema error before
C12_RaisesInRulesLoopOnly ==
  raised =>
    LET g == integrations[idx]
    IN /\ ReachesFullValidation(g)
       /\ RulesLoopRaises(g.file.data)
       /\ ~SchemaValid(g.file.data)
       /\ Len(errors[idx]) = 1
       /\ IsSchemaError(errors[idx][1])

(***************************************************************************)
(* C13.  Two runs of validate_iqs_file on the same unmodified integration, *)
(* with validators that return the same results in both runs, add the same *)
(* sequence of errors, also when several done rules have a validator that  *)
(* fails (the loop over the set rules_done).                               *)
(***************************************************************************)
\* what each validator returned in run i
ResultsOf(i) ==
  {<< ValidatorCallsOf(i)[k].rule, ValidatorCallsOf(i)[k].returned >> :
     k \in DOMAIN ValidatorCallsOf(i)}

\* both runs are over, on the same integration, with the same results
RanTwice ==
  /\ Len(integrations) = 2
  /\ integrations[1] = integrations[2]
  /\ Processed(1) /\ Processed(2)
  /\ ResultsOf(1) = ResultsOf(2)

FailingValidators(i) == {r \in ResultsOf(i) : r[2] # << >>}

C13_AsClaimed == RanTwice => errors[1] = errors[2]

Occurrences(s, e) == Cardinality({k \in DOMAIN s : s[k] = e})

IsValidatorError(e) == \E n \in RuleNames : IsTagged(e, n) \/ IsLink(e, n)

\* the errors a validator's result stands for are next to each other: the
\* tagged errors in the order returned, then the link
BlockOf(i, r) ==
  \E k \in DOMAIN errors[i] :
    /\ k + Len(r[2]) <= Len(errors[i])
    /\ \A j \in DOMAIN r[2] :
         errors[i][k + j - 1] = Error(<< "[", r[1], "] ", r[2][j] >>)
    /\ IsLink(errors[i][k + Len(r[2])], r[1])

C13_Amended ==
  RanTwice =>
    /\ Len(errors[1]) = Len(errors[2])
    /\ \A k \in DOMAIN errors[1] :
         /\ Occurrences(errors[1], errors[1][k]) = Occurrences(errors[2], errors[1][k])
         /\ ~IsValidatorError(errors[1][k]) => errors[2][k] = errors[1][k]
    /\ \A i \in {1, 2} : \A r \in FailingValidators(i) : BlockOf(i, r)
    /\ Cardinality(FailingValidators(1)) <= 1 => errors[1] = errors[2]

\* two done rules with failing validators, in a different order in each run
C13_Witness ==
  /\ RanTwice
  /\ Cardinality(FailingValidators(1)) = 2
  /\ errors[1] # errors[2]
  /\ \E k \in DOMAIN errors[1] : IsShortfall(errors[1][k])

(***************************************************************************)
(* C14.  SCALE_RULES is a partition of the catalog: the lists of two       *)
(* different tiers share no rule name, no list holds a name twice, and the *)
(* names of all the lists together are the names of ALL_RULES.             *)
(***************************************************************************)
NoRepeat(s) == \A a, b \in DOMAIN s : s[a] = s[b] => a = b

C14_Partition ==
  /\ \A t1, t2 \in DOMAIN SCALE_RULES :
       t1 < t2 => Range(SCALE_RULES[t1]) \cap Range(SCALE_RULES[t2]) = {}
  /\ \A t \in DOMAIN SCALE_RULES : NoRepeat(SCALE_RULES[t])
  /\ UNION {Range(SCALE_RULES[t]) : t \in DOMAIN SCALE_RULES}
       = {ALL_RULES[k].name : k \in DOMAIN ALL_RULES}
  /\ DOMAIN SCALE_RULES = Range(ScaledQualityScaleTiers)
  \* what the tier check reports from the index: no rule under two tiers
  /\ \A i \in DOMAIN integrations :
       \A a, b \in DOMAIN errors[i] :
         (IsShortfall(errors[i][a]) /\ IsShortfall(errors[i][b]) /\ a # b) =>
           Range(ListedRules(errors[i][a])) \cap Range(ListedRules(errors[i][b])) = {}

\* platinum declared and no rule met: the four shortfall errors list every
\* catalog rule, each once
C14_Witness ==
  \E i \in DOMAIN integrations :
    /\ i < idx
    /\ integrations[i].quality_scale = "platinum"
    /\ LET shortfalls == SelectSeq(errors[i], IsShortfall)
       IN /\ Len(shortfalls) = Len(ScaledQualityScaleTiers)
          /\ UNION {Range(ListedRules(shortfalls[k])) : k \in DOMAIN shortfalls}
               = RuleNames
          /\ Len(ListedRules(shortfalls[1])) + Len(ListedRules(shortfalls[2]))
               + Len(ListedRules(shortfalls[3])) + Len(ListedRules(shortfalls[4]))
               = Len(ALL_RULES)

(***************************************************************************)
(* C15.  When the document parses but fails SCHEMA, the schema error is    *)
(* added first and the call goes on: the validator of every done rule is   *)
(* still invoked and the tier check still runs, so their errors follow the *)
(* schema error in the same call.                                          *)
(***************************************************************************)
\* the tiers the tier check owes a shortfall error for
DueTiers(g) ==
  {t \in AllTiers :
     /\ \E d \in AllTiers : TierName(d) = g.quality_scale /\ t <= d
     /\ RequiredRules(t) \ RulesMet(g.file.data) # {}}

GoesOnAfterSchemaError(i) ==
  LET g == integrations[i]
      shortfalls == SelectSeq(errors[i], IsShortfall)
  IN /\ errors[i] # << >>
     /\ IsSchemaError(errors[i][1])
     /\ \A k \in DOMAIN errors[i] : k > 1 => ~IsSchemaError(errors[i][k])
     /\ i < idx
     /\ ValidatorsMatchDone(i)
     /\ \A c \in Range(ValidatorCallsOf(i)) :
          c.returned # << >> => \E k \in DOMAIN errors[i] : IsLink(errors[i][k], c.rule)
     /\ {ShortfallTier(shortfalls[k]) : k \in DOMAIN shortfalls} = DueTiers(g)

C15_SchemaFailureGoesOn ==
  \A i \in DOMAIN integrations :
    LET g == integrations[i]
    IN (Processed(i) /\ ReachesFullValidation(g) /\ ~SchemaValid(g.file.data))
       => GoesOnAfterSchemaError(i)

\* C15 for the documents whose entries all carry a status string: there it
\* holds, so C15 breaks only where the rules loop raises
C15_WhenStatusesGiven ==
  \A i \in DOMAIN integrations :
    LET g == integrations[i]
    IN (Processed(i) /\ ReachesFullValidation(g) /\ ~SchemaValid(g.file.data)
        /\ StatusesGiven(g.file.data))
       => GoesOnAfterSchemaError(i)

(***************************************************************************)
(* C16.  A rule counts as met for the tier check only when its status is   *)
(* done, or exempt with a comment.  A rule that is exempt without a        *)
(* comment, todo, or not in the document is not in rules_met and is listed *)
(* in the shortfall error of its tier whenever that tier is at or below    *)
(* the declared tier.  rules_done is a subset of rules_met.                *)
(***************************************************************************)
\* the entries of the document by rule name, none for a rule it leaves out
Listed(data) == IF data.rules = "mapping" THEN Rules(data) ELSE << >>

StatusOf(listed, n) == IF n \in DOMAIN listed THEN listed[n].status ELSE Absent

CommentOf(listed, n) == IF n \in DOMAIN listed THEN listed[n].comment ELSE Absent

\* done, or exempt with a comment
JustifiedMet(data) ==
  LET listed == Listed(data)
  IN {n \in RuleNames :
        \/ StatusOf(listed, n) = "done"
        \/ StatusOf(listed, n) = "exempt" /\ IsStr(CommentOf(listed, n))}

\* done or exempt
DoneOrExempt(data) ==
  LET listed == Listed(data)
  IN {n \in RuleNames :
        StatusOf(listed, n) = "done" \/ StatusOf(listed, n) = "exempt"}

ListedUnder(i, t) ==
  UNION {Range(ListedRules(errors[i][k])) :
           k \in {j \in DOMAIN errors[i] :
                    IsShortfall(errors[i][j]) /\ ShortfallTier(errors[i][j]) = t}}

DeclaredTiers(g) == {d \in AllTiers : TierName(d) = g.quality_scale}

\* the claim as made, for the calls that return
C16_AsClaimed ==
  \A i \in DOMAIN integrations :
    LET g == integrations[i]
        met == JustifiedMet(g.file.data)
    IN (i < idx /\ ReachesFullValidation(g)) =>
         /\ \A d \in DeclaredTiers(g) : \A t \in AllTiers :
              t <= d => RequiredRules(t) \ met \subseteq ListedUnder(i, t)
         /\ \A c \in Range(ValidatorCallsOf(i)) : c.rules_done \subseteq met

\* Amended: met means done or exempt, with or without a comment.  Every
\* tier-shortfall error lists exactly the rules of its tier that are neither,
\* so a rule that is todo or not in the document is never counted as met and
\* an exempt rule is never listed; the done rules are among the met ones.
C16_Amended ==
  \A i \in DOMAIN integrations :
    LET g == integrations[i]
        met == DoneOrExempt(g.file.data)
    IN (Processed(i) /\ ReachesFullValidation(g)) =>
         /\ \A k \in DOMAIN errors[i] :
              IsShortfall(errors[i][k]) =>
                LET t == ShortfallTier(errors[i][k])
                IN /\ Range(ListedRules(errors[i][k])) = RequiredRules(t) \ met
                   /\ \E d \in DeclaredTiers(g) : t <= d
         /\ \A c \in Range(ValidatorCallsOf(i)) :
              /\ c.rules_done \subseteq met
              /\ \A n \in c.rules_done : StatusOf(Listed(g.file.data), n) = "done"

\* bronze declared; config-flow exempt without a comment is not listed while
\* brands, todo, is
C16_Witness ==
  \E i \in DOMAIN integrations :
    LET g == integrations[i]
    IN /\ i < idx
       /\ ReachesFullValidation(g)
       /\ g.quality_scale = "bronze"
       /\ StatusOf(Listed(g.file.data), "config-flow") = "exempt"
       /\ CommentOf(Listed(g.file.data), "config-flow") = Absent
       /\ StatusOf(Listed(g.file.data), "brands") = "todo"
       /\ "brands" \in ListedUnder(i, BRONZE)
       /\ "config-flow" \notin ListedUnder(i, BRONZE)

====
